---- MODULE Spec2Model ----
(***************************************************************************)
(* Model of cmd/main.go: a time-bounded load generator.  main() starts     *)
(* threadsCount goroutines running doLoad, one timer goroutine that closes *)
(* the stopExecution channel, waits on a sync.WaitGroup, optionally calls  *)
(* writer.Count and finally writer.Close.                                  *)
(*                                                                         *)
(* The Go runtime gives no upper bound on scheduling delays and            *)
(* time.Sleep only guarantees a minimum, so every interleaving of the      *)
(* goroutines' steps is a possible execution; the model is untimed and     *)
(* takes a step of a sleeping goroutine as the end of its sleep.           *)
(***************************************************************************)
EXTENDS Integers, Sequences, FiniteSets, TLC

\* Largest values of the flags threadsCount, secondsCount and
\* lineProtocolsCount that are explored (the smallest one is -1).
MaxThreads == 2
MaxSeconds == 2
MaxLines == 3
\* Largest product threadsCount * secondsCount * lineProtocolsCount explored.
MaxExpected == 6

Workers == 1..MaxThreads
WriterTypes == {"CLIENT_GO_V1", "CLIENT_GO_V2"}

VARIABLES
    writerType,          \* flag -type
    threadsCount,        \* flag -threadsCount
    secondsCount,        \* flag -secondsCount
    lineProtocolsCount,  \* flag -lineProtocolsCount
    skipCount,           \* flag -skipCount
    mpc,                 \* position of main
    expected,            \* main's local `expected`
    wgCounter,           \* counter of the sync.WaitGroup
    spawned,             \* number of `go doLoad` statements executed
    stopExecution,       \* the channel: "open" or "closed"
    tpc,                 \* position of the timer goroutine
    signals,             \* number of close(stopExecution) executed
    wpc,                 \* position of each doLoad goroutine
    wi,                  \* doLoad's loop variable i
    wj,                  \* doLoad's loop variable j
    sent,                \* per worker, the iterations passed to Write, in order
    accepted,            \* records the backend holds for the measurement
    total,               \* main's local `total`
    output,              \* result lines printed by main, in order
    failure,             \* why main panicked ("none" if it did not)
    response,            \* kind of the backend's answer to the count query
    countCalls,          \* number of writer.Count invocations
    closeCalls,          \* number of writer.Close invocations
    progress,            \* number of "writing iterations" lines printed
    pauses,              \* per worker, number of time.Sleep calls returned
    sawStop,             \* per worker, whether a select received from stopExecution
    batches,             \* per worker, number of per-second batches entered
    lateBatches,         \* per worker, batches entered after close(stopExecution)
    lateWrites,          \* per worker, Write calls begun after close(stopExecution)
    latePauses           \* per worker, time.Sleep calls returned after close(stopExecution)

cfgVars == <<writerType, threadsCount, secondsCount, lineProtocolsCount, skipCount>>
mainVars == <<mpc, expected, spawned, total, output, failure, response, countCalls,
             closeCalls>>
workerVars == <<wpc, wi, wj, sent, progress, pauses, sawStop, batches, lateBatches, lateWrites,
               latePauses>>
vars == <<cfgVars, mainVars, workerVars, wgCounter, stopExecution, tpc, signals, accepted>>

----------------------------------------------------------------------------
\* Pure helpers

\* A product that leaves the batch size out.
Expected_NoLines(t, s, l) == t * s

\* expected := threadsCount * secondsCount * lineProtocolsCount
Expected(t, s, l) == t * s * l

\* A start that counts the seconds from zero.
BatchStart_ZeroBased(i, l) == (i - 1) * l

\* A start that does not advance with the second.
BatchStart_NoAdvance(i, l) == l

\* start := i * lineProtocolsCount
BatchStart(i, l) == i * l

\* An end one record short of the batch.
BatchEnd_Short(i, l) == BatchStart(i, l) + l - 1

\* An end one record past the batch.
BatchEnd_Long(i, l) == BatchStart(i, l) + l + 1

\* end := start + lineProtocolsCount
BatchEnd(i, l) == BatchStart(i, l) + l

\* A loop that runs one second too many.
MoreSeconds_OneMore(i, s) == i <= s + 1

\* Line 130, the loop condition `i <= secondsCount`.
MoreSeconds(i, s) == i <= s

\* Every worker prints the progress line.
PrintsProgress_All(w) == TRUE

\* Line 136, `if id == 1`.
PrintsProgress(w) == w = 1

\* close(ch), line 98: the channel is closed afterwards; closing a channel
\* that is already closed is a run-time panic ("close of closed channel").
CloseChan(ch) == [ch |-> "closed", panic |-> ch = "closed"]

\* A receive from a nil channel: never ready, the select always takes `default`.
StopSelected_NilChannel(ch) == FALSE

\* A receive from a channel can proceed without a sender only when the
\* channel is closed: `case <-stopExecution` is chosen iff it is closed,
\* otherwise the select takes `default`.
StopSelected(ch) == ch = "closed"

\* The select before a second's batch, as worker w executes it.
OuterStop(w) == StopSelected(stopExecution)

\* A batch without the select before each Write.
InnerStop_Never(w) == FALSE

\* The select before one Write, as worker w executes it.
InnerStop(w) == StopSelected(stopExecution)

\* A wait that returns with one worker still running.
WaitReturns_Early(c) == c <= 1

\* No wait at all.
WaitReturns_NoWait(c) == TRUE

\* wg.Wait() returns when the counter is zero.
WaitReturns(c) == c = 0

\* The test of skipCount inverted.
AfterWait_Inverted(skip) == IF skip THEN "count" ELSE "close"

\* Line 103, `if !*skipCount`: where main goes after wg.Wait().
AfterWait(skip) == IF ~skip THEN "count" ELSE "close"

\* fmt.Sprintf("%v", n) of a non-negative number: its decimal digits.
RECURSIVE Sprintf(_)
Sprintf(n) == IF n < 10 THEN <<n>> ELSE Sprintf(n \div 10) \o <<n % 10>>

\* strconv.Atoi of a string of decimal digits.
RECURSIVE Atoi(_)
Atoi(s) == IF Len(s) = 0 THEN 0
           ELSE 10 * Atoi(SubSeq(s, 1, Len(s) - 1)) + s[Len(s)]

\* What the backend answers to the count query.
\*   kind "err"    : the query call fails (transport or response error)
\*   kind "rows"   : one row carrying the number of records n
\*   kind "norows" : an empty result (possible only when nothing was stored)
Responses(n) ==
    {[kind |-> "err", n |-> 0], [kind |-> "rows", n |-> n]}
    \cup (IF n = 0 THEN {[kind |-> "norows", n |-> 0]} ELSE {})

\* WriterV2.Count: the result (value, error) or a panic of the call.
CountV2(resp) ==
    CASE resp.kind = "err"    -> [val |-> 0, err |-> TRUE, panic |-> FALSE]
      [] resp.kind = "norows" -> [val |-> 0, err |-> TRUE, panic |-> FALSE]
      [] OTHER                -> [val |-> resp.n, err |-> FALSE, panic |-> FALSE]

\* WriterV1.Count: a failed query falls through to `return 0, nil`; an empty
\* result makes Results[0].Series[0] index out of range.
CountV1(resp) ==
    CASE resp.kind = "err"    -> [val |-> 0, err |-> FALSE, panic |-> FALSE]
      [] resp.kind = "norows" -> [val |-> 0, err |-> FALSE, panic |-> TRUE]
      [] OTHER                -> [val |-> Atoi(Sprintf(resp.n)), err |-> FALSE, panic |-> FALSE]

\* writer.Count through the Writer interface.
Count(type, resp) == IF type = "CLIENT_GO_V2" THEN CountV2(resp) ELSE CountV1(resp)

\* Errors writer.Close can return: WriterV2.Close always returns nil,
\* WriterV1.Close returns what the client's Close returns.
CloseErrors(type) == IF type = "CLIENT_GO_V2" THEN {FALSE} ELSE {FALSE, TRUE}

\* main has returned or panicked: the process is gone, and its goroutines with it.
Terminated == mpc \in {"done", "panic"}

----------------------------------------------------------------------------
Init ==
    /\ writerType \in WriterTypes
    /\ threadsCount \in (-1)..MaxThreads
    /\ secondsCount \in (-1)..MaxSeconds
    /\ lineProtocolsCount \in (-1)..MaxLines
    /\ threadsCount * secondsCount * lineProtocolsCount <= MaxExpected
    /\ skipCount \in BOOLEAN
    /\ mpc = "start"
    /\ expected = 0
    /\ wgCounter = 0
    /\ spawned = 0
    /\ stopExecution = "open"
    /\ tpc = "unstarted"
    /\ signals = 0
    /\ wpc = [w \in Workers |-> "unstarted"]
    /\ wi = [w \in Workers |-> 0]
    /\ wj = [w \in Workers |-> 0]
    /\ sent = [w \in Workers |-> << >>]
    /\ accepted = 0
    /\ total = 0
    /\ output = << >>
    /\ failure = "none"
    /\ response = "none"
    /\ countCalls = 0
    /\ closeCalls = 0
    /\ progress = 0
    /\ pauses = [w \in Workers |-> 0]
    /\ sawStop = [w \in Workers |-> FALSE]
    /\ batches = [w \in Workers |-> 0]
    /\ lateBatches = [w \in Workers |-> 0]
    /\ lateWrites = [w \in Workers |-> 0]
    /\ latePauses = [w \in Workers |-> 0]

----------------------------------------------------------------------------
\* main

\* Lines 43-85: parse the flags, compute expected, build the writer, make the channel.
MainStart ==
    /\ mpc = "start"
    /\ expected' = Expected(threadsCount, secondsCount, lineProtocolsCount)
    /\ mpc' = "add"
    /\ UNCHANGED <<cfgVars, workerVars, spawned, total, output, failure, response,
                   countCalls, closeCalls, wgCounter, stopExecution, tpc, signals,
                   accepted>>

\* Line 87: wg.Add(threadsCount) panics when the counter would go negative.
MainWgAdd ==
    /\ mpc = "add"
    /\ IF wgCounter + threadsCount < 0
       THEN /\ mpc' = "panic"
            /\ failure' = "NegativeWaitGroup"
            /\ UNCHANGED wgCounter
       ELSE /\ mpc' = "spawn"
            /\ wgCounter' = wgCounter + threadsCount
            /\ UNCHANGED failure
    /\ UNCHANGED <<cfgVars, workerVars, expected, spawned, total, output, response,
                   countCalls, closeCalls, stopExecution, tpc, signals, accepted>>

\* Lines 91-93: one `go doLoad(...)`; the new goroutine is at the top of its loop, i = 1.
MainSpawn ==
    /\ mpc = "spawn"
    /\ spawned + 1 <= threadsCount
    /\ spawned' = spawned + 1
    /\ wpc' = [wpc EXCEPT ![spawned + 1] = "loop"]
    /\ wi' = [wi EXCEPT ![spawned + 1] = 1]
    /\ UNCHANGED <<cfgVars, mpc, expected, total, output, failure, response, countCalls,
                   closeCalls, wj, sent, progress, pauses, sawStop, batches, lateBatches,
                   lateWrites, latePauses, wgCounter, stopExecution, tpc, signals,
                   accepted>>

\* Lines 95-99: the for loop is over; start the timer goroutine.
MainStartTimer ==
    /\ mpc = "spawn"
    /\ ~(spawned + 1 <= threadsCount)
    /\ tpc' = "sleeping"
    /\ mpc' = "wait"
    /\ UNCHANGED <<cfgVars, workerVars, expected, spawned, total, output, failure,
                   response, countCalls, closeCalls, wgCounter, stopExecution, signals,
                   accepted>>

\* Lines 101-103: wg.Wait() returns; skipCount decides what follows.
MainWait ==
    /\ mpc = "wait"
    /\ WaitReturns(wgCounter)
    /\ mpc' = AfterWait(skipCount)
    /\ UNCHANGED <<cfgVars, workerVars, expected, spawned, total, output, failure,
                   response, countCalls, closeCalls, wgCounter, stopExecution, tpc,
                   signals, accepted>>

\* Line 109: writer.Count is invoked.
MainCountCall ==
    /\ mpc = "count"
    /\ countCalls' = countCalls + 1
    /\ mpc' = "counting"
    /\ UNCHANGED <<cfgVars, workerVars, expected, spawned, total, output, failure,
                   response, closeCalls, wgCounter, stopExecution, tpc, signals,
                   accepted>>

\* The result lines of 113-116, printed before line 117 is evaluated.
ResultLines(e, t) == << <<"expected", e>>, <<"total", t>>, <<"rate", t, e>> >>

\* Lines 109-120: writer.Count returns; panic on its error, else print the results.
\* total / *secondsCount is an integer division: it panics when secondsCount is 0.
MainCountReturn ==
    /\ mpc = "counting"
    /\ \E resp \in Responses(accepted) :
         LET r == Count(writerType, resp) IN
           /\ response' = resp.kind
           /\ IF r.panic
              THEN /\ mpc' = "panic"
                   /\ failure' = "IndexOutOfRange"
                   /\ UNCHANGED <<total, output>>
              ELSE IF r.err
              THEN /\ mpc' = "panic"
                   /\ failure' = "QueryError"
                   /\ UNCHANGED <<total, output>>
              ELSE IF secondsCount = 0
              THEN /\ total' = r.val
                   /\ output' = ResultLines(expected, r.val)
                   /\ mpc' = "panic"
                   /\ failure' = "DivideByZero"
              ELSE /\ total' = r.val
                   /\ output' = ResultLines(expected, r.val)
                                \o << <<"msgsec", r.val \div secondsCount>>, <<"time">> >>
                   /\ mpc' = "close"
                   /\ UNCHANGED failure
    /\ UNCHANGED <<cfgVars, workerVars, expected, spawned, countCalls, closeCalls,
                   wgCounter, stopExecution, tpc, signals, accepted>>

\* Line 122: writer.Close is invoked.
MainCloseCall ==
    /\ mpc = "close"
    /\ closeCalls' = closeCalls + 1
    /\ mpc' = "closing"
    /\ UNCHANGED <<cfgVars, workerVars, expected, spawned, total, output, failure,
                   response, countCalls, wgCounter, stopExecution, tpc, signals,
                   accepted>>

\* Lines 122-125: writer.Close returns; panic on its error, else main returns.
MainCloseReturn ==
    /\ mpc = "closing"
    /\ \E err \in CloseErrors(writerType) :
         IF err
         THEN mpc' = "panic" /\ failure' = "CloseError"
         ELSE mpc' = "done" /\ UNCHANGED failure
    /\ UNCHANGED <<cfgVars, workerVars, expected, spawned, total, output, response,
                   countCalls, closeCalls, wgCounter, stopExecution, tpc, signals,
                   accepted>>

----------------------------------------------------------------------------
\* Line 98, the statement close(stopExecution); a panic in any goroutine ends
\* the process.
Signal ==
    LET r == CloseChan(stopExecution) IN
      /\ stopExecution' = r.ch
      /\ signals' = signals + 1
      /\ IF r.panic
         THEN mpc' = "panic" /\ failure' = "CloseOfClosedChannel"
         ELSE UNCHANGED <<mpc, failure>>
      /\ UNCHANGED <<cfgVars, workerVars, expected, spawned, total, output, response,
                     countCalls, closeCalls, wgCounter, accepted>>

\* The timer goroutine, lines 95-99: the sleep is over, close(stopExecution).
TimerFire ==
    /\ tpc = "sleeping"
    /\ ~Terminated
    /\ Signal
    /\ tpc' = "fired"

\* The statement of line 98 executed once more, on the channel it has closed.
SignalAgain ==
    /\ tpc = "fired"
    /\ ~Terminated
    /\ Signal
    /\ UNCHANGED tpc

----------------------------------------------------------------------------
\* doLoad

\* A return that does not run wg.Done().
Return_NoDone(w) ==
    /\ wpc' = [wpc EXCEPT ![w] = "done"]
    /\ UNCHANGED wgCounter

\* `return` from doLoad: the deferred wg.Done() runs (line 128).
Return(w) ==
    /\ wpc' = [wpc EXCEPT ![w] = "done"]
    /\ wgCounter' = wgCounter - 1

\* Lines 130-140: the loop condition, the select on stopExecution, the progress
\* line of worker 1, and start := i * lineProtocolsCount.
OuterSelect(w) ==
    /\ wpc[w] = "loop"
    /\ ~Terminated
    /\ IF ~MoreSeconds(wi[w], secondsCount)
       THEN /\ Return(w)
            /\ UNCHANGED <<wj, progress, sawStop, batches, lateBatches>>
       ELSE IF OuterStop(w)
       THEN /\ Return(w)
            /\ sawStop' = [sawStop EXCEPT ![w] = TRUE]
            /\ UNCHANGED <<wj, progress, batches, lateBatches>>
       ELSE /\ progress' = IF PrintsProgress(w) THEN progress + 1 ELSE progress
            /\ batches' = [batches EXCEPT ![w] = @ + 1]
            /\ wj' = [wj EXCEPT ![w] = BatchStart(wi[w], lineProtocolsCount)]
            /\ wpc' = [wpc EXCEPT ![w] = "inner"]
            /\ lateBatches' = [lateBatches EXCEPT ![w] =
                                  IF stopExecution = "closed" THEN @ + 1 ELSE @]
            /\ UNCHANGED <<wgCounter, sawStop>>
    /\ UNCHANGED <<cfgVars, mainVars, wi, sent, pauses, lateWrites, latePauses,
                   stopExecution, tpc, signals, accepted>>

\* Lines 142-146: the inner loop condition and the select before one Write.
InnerSelect(w) ==
    /\ wpc[w] = "inner"
    /\ ~Terminated
    /\ IF ~(wj[w] < BatchEnd(wi[w], lineProtocolsCount))
       THEN /\ wpc' = [wpc EXCEPT ![w] = "sleep"]
            /\ UNCHANGED <<wgCounter, sawStop>>
       ELSE IF InnerStop(w)
       THEN /\ Return(w)
            /\ sawStop' = [sawStop EXCEPT ![w] = TRUE]
       ELSE /\ wpc' = [wpc EXCEPT ![w] = "write"]
            /\ UNCHANGED <<wgCounter, sawStop>>
    /\ UNCHANGED <<cfgVars, mainVars, wi, wj, sent, progress, pauses, batches, lateBatches,
                   lateWrites, latePauses, stopExecution, tpc, signals, accepted>>

\* Line 147: influx.Write(id, measurementName, j) is entered.
WriteCall(w) ==
    /\ wpc[w] = "write"
    /\ ~Terminated
    /\ sent' = [sent EXCEPT ![w] = Append(@, wj[w])]
    /\ lateWrites' = [lateWrites EXCEPT ![w] =
                         IF stopExecution = "closed" THEN @ + 1 ELSE @]
    /\ wpc' = [wpc EXCEPT ![w] = "writing"]
    /\ UNCHANGED <<cfgVars, mainVars, wi, wj, progress, pauses, sawStop, batches, lateBatches,
                   latePauses, wgCounter, stopExecution, tpc, signals, accepted>>

\* A Write that is repeated with the same iteration until it is stored.
WriteReturn_Retry(w) ==
    /\ wpc[w] = "writing"
    /\ ~Terminated
    /\ \E ok \in BOOLEAN :
         IF ok
         THEN /\ accepted' = accepted + 1
              /\ wj' = [wj EXCEPT ![w] = @ + 1]
              /\ wpc' = [wpc EXCEPT ![w] = "inner"]
         ELSE /\ wpc' = [wpc EXCEPT ![w] = "write"]
              /\ UNCHANGED <<accepted, wj>>
    /\ UNCHANGED <<cfgVars, mainVars, wi, sent, progress, pauses, sawStop, batches,
                   lateBatches, lateWrites, latePauses, wgCounter, stopExecution, tpc,
                   signals>>

\* Lines 147-149 with 155-163 / 194-209: Write returns nothing whether the
\* record was stored or not (WriterV1 drops the error, WriterV2 hands the point
\* to the write API); then j++.
WriteReturn(w) ==
    /\ wpc[w] = "writing"
    /\ ~Terminated
    /\ \E ok \in BOOLEAN : accepted' = IF ok THEN accepted + 1 ELSE accepted
    /\ wj' = [wj EXCEPT ![w] = @ + 1]
    /\ wpc' = [wpc EXCEPT ![w] = "inner"]
    /\ UNCHANGED <<cfgVars, mainVars, wi, sent, progress, pauses, sawStop, batches, lateBatches,
                   lateWrites, latePauses, wgCounter, stopExecution, tpc, signals>>

\* Line 150: time.Sleep(1 second) is entered.
SleepCall(w) ==
    /\ wpc[w] = "sleep"
    /\ ~Terminated
    /\ wpc' = [wpc EXCEPT ![w] = "sleeping"]
    /\ UNCHANGED <<cfgVars, mainVars, wi, wj, sent, progress, pauses, sawStop,
                   batches, lateBatches, lateWrites, latePauses, wgCounter, stopExecution, tpc,
                   signals, accepted>>

\* Lines 150 and 130: time.Sleep returns (it cannot be interrupted); then i++.
SleepReturn(w) ==
    /\ wpc[w] = "sleeping"
    /\ ~Terminated
    /\ pauses' = [pauses EXCEPT ![w] = @ + 1]
    /\ latePauses' = [latePauses EXCEPT ![w] =
                         IF stopExecution = "closed" THEN @ + 1 ELSE @]
    /\ wi' = [wi EXCEPT ![w] = @ + 1]
    /\ wpc' = [wpc EXCEPT ![w] = "loop"]
    /\ UNCHANGED <<cfgVars, mainVars, wj, sent, progress, sawStop, batches, lateBatches,
                   lateWrites, wgCounter, stopExecution, tpc, signals, accepted>>

doLoad(w) ==
    \/ OuterSelect(w)
    \/ InnerSelect(w)
    \/ WriteCall(w)
    \/ WriteReturn(w)
    \/ SleepCall(w)
    \/ SleepReturn(w)

main ==
    \/ MainStart
    \/ MainWgAdd
    \/ MainSpawn
    \/ MainStartTimer
    \/ MainWait
    \/ MainCountCall
    \/ MainCountReturn
    \/ MainCloseCall
    \/ MainCloseReturn

Next ==
    \/ main
    \/ TimerFire
    \/ \E w \in Workers : doLoad(w)

Spec == Init /\ [][Next]_vars

\* The program with the signal operation applied a second time.
SpecSignal == Init /\ [][Next \/ SignalAgain]_vars

\* The scheduler runs every goroutine that can take a step; nothing makes the
\* timer goroutine's sleep end before the process does.
FairSpec ==
    /\ Spec
    /\ WF_vars(main)
    /\ \A w \in Workers : WF_vars(doLoad(w))

----------------------------------------------------------------------------
\* Vocabulary of the properties

\* The configuration the specification calls valid.
ValidConfig == threadsCount > 0 /\ secondsCount > 0 /\ lineProtocolsCount > 0

\* Number of doLoad goroutines that have returned.
Exited == Cardinality({w \in Workers : wpc[w] = "done"})

\* Number of Write calls begun by the workers 1..n.
RECURSIVE SentUpTo(_)
SentUpTo(n) == IF n = 0 THEN 0 ELSE Len(sent[n]) + SentUpTo(n - 1)

\* Number of Write calls begun by all workers.
TotalSent == SentUpTo(MaxThreads)

\* Every Write has returned.
NoWriteInProgress == \A w \in Workers : wpc[w] # "writing"

\* main is at or past the call of Count or of Close.
PastBarrier ==
    \/ mpc \in {"count", "counting", "close", "closing", "done"}
    \/ countCalls > 0
    \/ closeCalls > 0

----------------------------------------------------------------------------
\* C1: main invokes neither Count nor Close before the number of exited
\* workers equals the configured worker count, and every started worker
\* contributes exactly one exit to the WaitGroup whatever path it leaves by:
\* once wg.Add has run, the counter is the worker count minus the workers
\* that have returned.
C1_CompletionBarrier ==
    /\ PastBarrier => Exited = threadsCount
    /\ mpc \notin {"start", "add", "panic"} => wgCounter = threadsCount - Exited

\* Count is running after three different exits: worker 1 was stopped in the
\* middle of a batch, worker 2 ran out of seconds.
C1_Witness ==
    /\ mpc = "counting"
    /\ threadsCount = 2
    /\ sawStop[1] /\ Len(sent[1]) = 1 /\ lineProtocolsCount = 2
    /\ ~sawStop[2] /\ wi[2] > secondsCount

\* C2: once stopExecution is closed a worker begins at most one further Write
\* and enters no new per-second batch, and a worker whose select received from
\* stopExecution has returned (so it performs no further Write).
C2_StopBoundsSubmissions ==
    \A w \in Workers :
        /\ lateWrites[w] <= 1
        /\ lateBatches[w] = 0
        /\ sawStop[w] => wpc[w] = "done"

\* A worker passed its select, the channel was closed, it began that one Write
\* and its next select made it return with part of the batch unsent.
C2_Witness ==
    \E w \in Workers :
        /\ lateWrites[w] = 1
        /\ sawStop[w]
        /\ Len(sent[w]) < secondsCount * lineProtocolsCount

\* C3: in every run with a valid configuration Close has been invoked exactly
\* once when main returns, and when Count returns an error the run fails with
\* no result printed and Close has still been invoked exactly once.
C3_CloseExactlyOnce ==
    /\ (ValidConfig /\ mpc = "done") => closeCalls = 1
    /\ (ValidConfig /\ failure = "QueryError") =>
           (mpc = "panic" /\ output = << >> /\ closeCalls = 1)

\* C4: when the count query fails, main ends with a QueryError and prints no
\* result line, whichever writer is used.
C4_FailedQueryIsFatal ==
    (ValidConfig /\ response = "err") =>
        (mpc = "panic" /\ failure = "QueryError" /\ output = << >>)

\* C5: with a worker count, duration or batch size that is not positive, no
\* worker and no timer is started, nothing is invoked on the backend, and the
\* run ends in failure.
C5_InvalidConfigRejected ==
    ~ValidConfig =>
        /\ spawned = 0
        /\ tpc = "unstarted"
        /\ countCalls = 0 /\ closeCalls = 0
        /\ \A w \in Workers : sent[w] = << >>
        /\ Terminated => mpc = "panic"

\* C6: for a valid configuration expected is threadsCount * secondsCount *
\* lineProtocolsCount from before the first worker is started, and that is
\* the value printed with the results.
C6_ExpectedFromConfig ==
    ValidConfig =>
        /\ (mpc # "start" \/ spawned > 0) =>
               expected = threadsCount * secondsCount * lineProtocolsCount
        /\ output # << >> =>
               output[1] = <<"expected", threadsCount * secondsCount * lineProtocolsCount>>

\* The results were printed after a run that was stopped early and in which
\* some Write was not stored.
C6_Witness ==
    /\ ValidConfig
    /\ mpc = "done"
    /\ output # << >>
    /\ expected = 6
    /\ \E w \in Workers : sawStop[w]
    /\ accepted < Len(sent[1]) + Len(sent[2])

\* C7: with skipCount set, Count is never invoked and no result line is
\* printed: main goes from wg.Wait() to Close.  With threadsCount = 1,
\* secondsCount = 2, lineProtocolsCount = 3 the run ends with expected = 6.
C7_SkipCount ==
    skipCount =>
        /\ countCalls = 0
        /\ mpc \notin {"count", "counting"}
        /\ output = << >>
        /\ response = "none"
        /\ (mpc = "done" /\ threadsCount = 1 /\ secondsCount = 2
              /\ lineProtocolsCount = 3) => expected = 6

\* The run of that example has ended, after Close and without Count.
C7_Witness ==
    /\ skipCount
    /\ threadsCount = 1 /\ secondsCount = 2 /\ lineProtocolsCount = 3
    /\ mpc = "done"
    /\ closeCalls = 1
    /\ expected = 6
    /\ Len(sent[1]) = 6

\* C8: a step that invokes Count or Close is a step of main and of no worker;
\* from the moment either is invoked every started worker has returned, so no
\* Write is in progress and none begins later; and Close is not invoked while
\* Count is in progress.
C8_BackendExclusion ==
    /\ [](PastBarrier =>
            /\ \A w \in Workers : wpc[w] \in {"unstarted", "done"}
            /\ \A w \in Workers : w <= threadsCount => wpc[w] = "done")
    /\ [](mpc = "counting" => closeCalls = 0)
    /\ [][(countCalls' # countCalls \/ closeCalls' # closeCalls) =>
            (mpc' # mpc /\ workerVars' = workerVars /\ wgCounter' = wgCounter)]_vars
    /\ [][PastBarrier => sent' = sent]_vars

\* Close is in progress after Count, and both workers have written.
C8_Witness ==
    /\ mpc = "closing"
    /\ countCalls = 1
    /\ threadsCount = 2
    /\ Len(sent[1]) > 0 /\ Len(sent[2]) > 0

\* C9: stopExecution starts open, only the timer goroutine closes it, it is
\* closed at most once, it is never reopened, and every select a worker
\* executes while it is closed receives from it.
C9_StopWriteOnce ==
    /\ [](mpc = "start" => stopExecution = "open")
    /\ [](signals <= 1)
    /\ []((stopExecution = "closed") <=> (tpc = "fired" /\ signals = 1))
    /\ [][stopExecution = "closed" => stopExecution' = "closed"]_vars
    /\ [][stopExecution' # stopExecution => (tpc = "sleeping" /\ tpc' = "fired")]_vars
    /\ [][\A w \in Workers :
            ( /\ stopExecution = "closed"
              /\ \/ wpc[w] = "loop" /\ wi[w] <= secondsCount
                 \/ wpc[w] = "inner" /\ wj[w] < BatchEnd(wi[w], lineProtocolsCount)
              /\ wpc'[w] # wpc[w] )
            => (sawStop'[w] /\ wpc'[w] = "done")]_vars

\* Both workers executed a select after the close and received from the channel.
C9_Witness ==
    /\ stopExecution = "closed"
    /\ threadsCount = 2
    /\ sawStop[1] /\ sawStop[2]

\* C10: after stopExecution is closed a worker that has not returned does so
\* within one submission: it begins at most one further Write and no pause of
\* it ends (or begins and ends) after the close.
C10_PromptExit ==
    ValidConfig => \A w \in Workers : lateWrites[w] <= 1 /\ latePauses[w] = 0

C12_FailedSubmitNotFatal ==
    /\ [][\A w \in Workers :
            (wpc[w] = "writing" /\ wpc'[w] # "writing" /\ accepted' = accepted)
            => /\ wpc'[w] = "inner"
               /\ wj'[w] = wj[w] + 1
               /\ sent' = sent
               /\ mpc' = mpc /\ failure' = failure]_vars
    /\ [](\A w \in Workers : \A a, b \in 1..Len(sent[w]) :
            a # b => sent[w][a] # sent[w][b])
    /\ []((ValidConfig /\ ~skipCount /\ accepted = 0
             /\ mpc \in {"close", "closing", "done"})
          => /\ Exited = threadsCount
             /\ total = 0
             /\ output # << >> /\ output[2] = <<"total", 0>>)

\* Every Write of a full run failed, Count returned 0 and main returned after Close.
C12_Witness ==
    /\ ValidConfig /\ ~skipCount
    /\ accepted = 0
    /\ TotalSent = expected /\ expected = 6
    /\ mpc = "done" /\ failure = "none"
    /\ countCalls = 1 /\ closeCalls = 1
    /\ output[2] = <<"total", 0>>

\* Every Write was stored, and Count answered with the number of stored
\* records and main printed the results.
AllStoredAndCounted ==
    /\ ValidConfig
    /\ accepted = TotalSent
    /\ response = "rows"
    /\ output # << >>

\* C13 as stated: whenever every Write succeeded and Count returned the number
\* of stored records, the total that is reported equals expected, on every
\* interleaving of the workers with the timer.
C13_ObservedEqualsExpected ==
    AllStoredAndCounted => total = expected

\* C13 as amended: in such a run the reported total is the number of stored
\* records and at most expected; it equals expected exactly when no worker's
\* select received from stopExecution.
C13_ObservedUpToStop ==
    AllStoredAndCounted =>
        /\ total = accepted
        /\ total <= expected
        /\ (total = expected) <=> (\A w \in Workers : ~sawStop[w])

\* Two workers, every Write stored: worker 1 was stopped, worker 2 ran all its
\* seconds, and the reported total is positive and below expected.
C13_Witness ==
    /\ AllStoredAndCounted
    /\ threadsCount = 2
    /\ sawStop[1] /\ ~sawStop[2]
    /\ total > 0 /\ total < expected
    /\ mpc = "done"

\* C14: within one worker the iterations passed to Write are strictly
\* increasing in the order of the calls, within a second and from one second
\* to the next.
C14_SequenceIncreasing ==
    \A w \in Workers : \A k \in 1..(Len(sent[w]) - 1) : sent[w][k] < sent[w][k + 1]

\* A worker has written two whole seconds of three records.
C14_Witness ==
    /\ lineProtocolsCount = 3
    /\ Len(sent[1]) = 6
    /\ sent[1][3] < sent[1][4]

\* Every started worker has returned, or no worker was ever started because
\* wg.Add panicked.
WorkersExited ==
    \/ failure = "NegativeWaitGroup"
    \/ \A w \in Workers : w <= threadsCount => wpc[w] = "done"

\* C15: when main and every worker keep being scheduled and every call
\* returns, every worker eventually returns and main eventually returns or
\* panics, whether or not the timer ever fires.  (Both conditions, once true,
\* stay true, so reaching them together is reaching each of them.)
C15_Terminates == <>(WorkersExited /\ Terminated)

\* main has returned after two workers wrote all their records while the timer
\* goroutine was still asleep.
C15_Witness ==
    /\ mpc = "done"
    /\ tpc = "sleeping"
    /\ threadsCount = 2
    /\ TotalSent = expected /\ expected = 6

\* Number of seconds of which worker w has written every record (the Write
\* in progress, if any, not counted); for a positive batch size.
CompletedSeconds(w) ==
    (Len(sent[w]) - (IF wpc[w] = "writing" THEN 1 ELSE 0)) \div lineProtocolsCount

\* C16 as stated: at every point of a run the number of progress lines equals
\* the number of per-second batches worker 1 has completed.
C16_ProgressAfterCompletedSecond ==
    ValidConfig => progress = CompletedSeconds(1)

\* C16 as amended: the progress line is printed by worker 1 alone, when it
\* enters a second's batch: the number of progress lines is the number of
\* batches worker 1 has entered, which is the number it has completed or one
\* more; and a worker that prints and one that does not pass the same
\* iterations to Write.
C16_ProgressAtBatchStart ==
    /\ progress = batches[1]
    /\ ValidConfig =>
          (CompletedSeconds(1) <= progress /\ progress <= CompletedSeconds(1) + 1)
    /\ \A w \in Workers : Len(sent[w]) = Len(sent[1]) => sent[w] = sent[1]

\* Both workers are in their second batch, worker 1 has printed two lines and
\* completed one second.
C16_Witness ==
    /\ ValidConfig
    /\ threadsCount = 2
    /\ progress = 2 /\ batches[1] = 2 /\ batches[2] = 2
    /\ CompletedSeconds(1) = 1
    /\ Len(sent[2]) = Len(sent[1]) /\ Len(sent[1]) > 0

\* C17: a worker pauses only when it has written every record of the current
\* second without having been stopped, never in the middle of a batch; and
\* when a Write begins, the pauses the worker has made are as many as the
\* seconds it has written in full, so exactly one pause lies between the last
\* Write of a second and the first Write of the next.
C17_Pacing ==
    ValidConfig =>
        \A w \in Workers :
            /\ wpc[w] \in {"sleep", "sleeping"} =>
                  /\ ~sawStop[w]
                  /\ Len(sent[w]) = wi[w] * lineProtocolsCount
                  /\ pauses[w] = wi[w] - 1
            /\ wpc[w] = "writing" =>
                  pauses[w] = (Len(sent[w]) - 1) \div lineProtocolsCount
            /\ pauses[w] <= Len(sent[w]) \div lineProtocolsCount

\* The first Write of the second second is in progress, after three Writes
\* and one pause.
C17_Witness ==
    /\ ValidConfig /\ lineProtocolsCount = 3
    /\ wpc[1] = "writing"
    /\ Len(sent[1]) = 4
    /\ pauses[1] = 1

\* C18: no worker begins more than secondsCount * lineProtocolsCount Writes, so
\* the Writes of all workers, and the records stored, never exceed expected,
\* the Writes begun after the close of stopExecution included.
C18_SubmissionsBounded ==
    (threadsCount >= 0 /\ secondsCount >= 0 /\ lineProtocolsCount >= 0) =>
        /\ \A w \in Workers : Len(sent[w]) <= secondsCount * lineProtocolsCount
        /\ TotalSent <= threadsCount * secondsCount * lineProtocolsCount
        /\ mpc # "start" => TotalSent <= expected
        /\ accepted <= TotalSent

\* Every Write of the run was made, one of them after the close.
C18_Witness ==
    /\ ValidConfig
    /\ TotalSent = expected /\ expected = 6
    /\ \E w \in Workers : lateWrites[w] = 1

\* C19: the iterations a worker passes to Write are, in order, a prefix of
\* L, L+1, ..., (S+1)*L - 1; the Write in progress in second i carries an
\* iteration of the block i*L .. i*L + L - 1; and a worker that returned
\* without receiving from stopExecution has passed the whole sequence.
C19_SequenceContents ==
    ValidConfig =>
        \A w \in Workers :
            /\ Len(sent[w]) <= secondsCount * lineProtocolsCount
            /\ \A k \in 1..Len(sent[w]) : sent[w][k] = lineProtocolsCount + k - 1
            /\ wpc[w] = "writing" =>
                  /\ wi[w] \in 1..secondsCount
                  /\ sent[w][Len(sent[w])] >= wi[w] * lineProtocolsCount
                  /\ sent[w][Len(sent[w])] <= wi[w] * lineProtocolsCount
                                               + lineProtocolsCount - 1
            /\ (wpc[w] = "done" /\ ~sawStop[w]) =>
                  Len(sent[w]) = secondsCount * lineProtocolsCount

\* With S = 2 and L = 3 a worker that was not stopped has written 3..8.
C19_Witness ==
    /\ secondsCount = 2 /\ lineProtocolsCount = 3
    /\ wpc[1] = "done" /\ ~sawStop[1]
    /\ sent[1] = <<3, 4, 5, 6, 7, 8>>

====
